---- MODULE Spec2Model ----
(***************************************************************************)
(* A model of the storeapp server (src/main.py): a FastAPI process that    *)
(* keeps two JSON files, the data file (catalog of stores) and the admins  *)
(* file (credentials), issues HS256 tokens at login, and gates writes      *)
(* behind require_role.                                                    *)
(*                                                                         *)
(* Python / JSON values are records [t, v, x]: t is the Python type, v an  *)
(* identifier of the content (two values of one type with the same v are   *)
(* equal), x the modelled structure when the code looks inside the value.  *)
(***************************************************************************)
EXTENDS Integers, Sequences, FiniteSets, TLC

VARIABLES
    now,         \* time.time(), in seconds
    adminsFile,  \* content of ADMINS_FILE
    dataFile,    \* content of DATA_FILE
    held,        \* the token the client holds (tokens are not stored by the server)
    last,        \* the last request handled: operation, header, time, status, response
                 \* (n alternates, telling a request from the one before it)
    wrote,       \* the last write to the data file that returned ok
    fs,          \* interleaved model: the directory and the inodes behind it
    th,          \* interleaved model: the worker threads' positions and locals
    acked        \* interleaved model: admin records whose create_admin returned ok

vars == <<now, adminsFile, dataFile, held, last, wrote, fs, th, acked>>

----------------------------------------------------------------------------
(* Bounds of the model *)

\* the clock is observed up to Horizon seconds after the start and after the
\* end of the life of a token minted at the start
Horizon == 1
\* the number of salts pwd_ctx.hash can draw
MaxSalt == 2

----------------------------------------------------------------------------
(* Python values *)

Leaf(t, v) == [t |-> t, v |-> v, x |-> <<>>]
None == Leaf("none", "None")
StrV(s) == Leaf("str", s)
\* an int, v holding its decimal digits
IntV(s) == Leaf("int", s)
OpaqueDict(id) == Leaf("dict", id)
OpaqueList(id) == Leaf("list", id)
\* a list whose elements the code iterates over (the catalog's stores)
NameList(seq) == [t |-> "list", v |-> "names", x |-> seq]
\* a dict with string keys the code reads by key (a store document, a catalog)
Doc(f) == [t |-> "dict", v |-> "doc", x |-> f]
\* a dict the code iterates over in insertion order (byStore): <<key, value>> pairs
Pairs(seq) == [t |-> "dict", v |-> "pairs", x |-> seq]

IsDict(a) == a.t = "dict"
IsList(a) == a.t = "list"
IsStr(a) == a.t = "str"
\* dict and list keys cannot be hashed: using one as a dict key raises TypeError
Hashable(a) == a.t \notin {"dict", "list"}

\* d.get(k) of a dict with string keys: None when the key is missing
DocGet(d, k) == IF k \in DOMAIN d.x THEN d.x[k] ELSE None

----------------------------------------------------------------------------
(* Python dicts in insertion order, as sequences of <<key, value>> *)

RECURSIVE PIndex(_, _, _)
PIndex(ps, k, i) ==
    IF i > Len(ps) THEN 0
    ELSE IF ps[i][1] = k THEN i ELSE PIndex(ps, k, i + 1)

PHas(ps, k) == PIndex(ps, k, 1) # 0
PGet(ps, k) == ps[PIndex(ps, k, 1)][2]
\* d[k] = v: an existing key keeps its position, a new key goes last
PPut(ps, k, v) ==
    IF PHas(ps, k)
    THEN [ps EXCEPT ![PIndex(ps, k, 1)] = <<k, v>>]
    ELSE Append(ps, <<k, v>>)

SeqHas(seq, e) == \E i \in 1..Len(seq) : seq[i] = e
Count(seq, e) == Cardinality({i \in 1..Len(seq) : seq[i] = e})

----------------------------------------------------------------------------
(* Files and JSON *)

\* what a path holds: nothing, text json.load rejects, or a JSON document
Absent == [kind |-> "absent", obj |-> None]
Garbage == [kind |-> "garbage", obj |-> None]
FileJson(j) == [kind |-> "json", obj |-> j]

\* json.dump writes a dict key that is not a str as a str: 1 -> "1", None -> "null"
DumpKey(k) ==
    CASE k.t = "int" -> StrV(k.v)
      [] k.t = "none" -> StrV("null")
      [] OTHER -> k

\* json.dump of a value: a byStore dict becomes a JSON object holding one member
\* per dict entry, in order, under the dumped key (two entries can share it)
DumpPairs(ps) == [i \in 1..Len(ps) |-> <<DumpKey(ps[i][1]), ps[i][2]>>]
Dump(a) ==
    IF IsDict(a) /\ a.v = "doc" /\ "byStore" \in DOMAIN a.x /\ a.x["byStore"].v = "pairs"
    THEN Doc([a.x EXCEPT !["byStore"] = Pairs(DumpPairs(a.x["byStore"].x))])
    ELSE a

\* json.load of a JSON object: members are inserted in order, a repeated key
\* keeps its first position and takes the last value
RECURSIVE LoadPairs(_, _)
LoadPairs(ms, acc) ==
    IF ms = <<>> THEN acc
    ELSE LoadPairs(Tail(ms), PPut(acc, Head(ms)[1], Head(ms)[2]))
Load(j) ==
    IF IsDict(j) /\ j.v = "doc" /\ "byStore" \in DOMAIN j.x /\ j.x["byStore"].v = "pairs"
    THEN Doc([j.x EXCEPT !["byStore"] = Pairs(LoadPairs(j.x["byStore"].x, <<>>))])
    ELSE j

\* _read_json(path, default)
ReadJson(file, default) == IF file.kind = "json" THEN Load(file.obj) ELSE default

\* _write_json(path, obj), when nothing else touches path + ".tmp"
WriteJson(obj) == FileJson(Dump(obj))

----------------------------------------------------------------------------
(* Data normalization *)

DefaultInventory == OpaqueDict("inventory0")
DefaultRecipes == OpaqueDict("recipes0")
DefaultStoreFields ==
    [inventory |-> DefaultInventory, recipes |-> DefaultRecipes,
     memo |-> StrV(""), ledger |-> OpaqueList("[]")]
default_store_data == Doc(DefaultStoreFields)

\* base = default_store_data(); base.update(st)
UpdatedBase(st) ==
    IF IsDict(st)
    THEN [k \in DOMAIN DefaultStoreFields \cup DOMAIN st.x |->
            IF k \in DOMAIN st.x THEN st.x[k] ELSE DefaultStoreFields[k]]
    ELSE DefaultStoreFields

normalize_store(st) ==
    LET base == UpdatedBase(st) IN
    Doc([k \in DOMAIN base |->
        CASE k = "inventory" -> IF IsDict(base[k]) THEN base[k] ELSE DefaultInventory
          [] k = "recipes" -> IF IsDict(base[k]) THEN base[k] ELSE DefaultRecipes
          [] k = "memo" -> IF IsStr(base[k]) THEN base[k] ELSE StrV("")
          [] k = "ledger" -> IF IsList(base[k]) THEN base[k] ELSE OpaqueList("[]")
          [] OTHER -> base[k]])

DefaultStores == <<StrV("Lab"), StrV("Hall")>>
Catalog(stores, byStore, lastSync) ==
    Doc([stores |-> NameList(stores), byStore |-> Pairs(byStore), lastSync |-> lastSync])

\* lines 118-125: the catalog before the loop over the stores
NormalizeHead(data) ==
    LET st == DocGet(data, "stores")
        by == DocGet(data, "byStore")
        ls == DocGet(data, "lastSync")
    IN  IF ~IsDict(data) THEN [stores |-> DefaultStores, byStore |-> <<>>, lastSync |-> StrV("")]
        ELSE [stores |-> IF IsList(st) /\ st.x # <<>> THEN st.x ELSE DefaultStores,
              byStore |-> IF IsDict(by)
                          THEN [i \in 1..Len(by.x) |-> <<by.x[i][1], normalize_store(by.x[i][2])>>]
                          ELSE <<>>,
              lastSync |-> IF IsStr(ls) THEN ls ELSE StrV("")]

\* lines 126-128: for s in d["stores"]; ok turns FALSE where the TypeError is raised
RECURSIVE NormalizeLoop(_, _)
NormalizeLoop(stores, by) ==
    IF stores = <<>> THEN [ok |-> TRUE, byStore |-> by]
    ELSE LET s == Head(stores) IN
         IF ~Hashable(s) THEN [ok |-> FALSE, byStore |-> by]
         ELSE NormalizeLoop(Tail(stores),
                PPut(by, s, normalize_store(IF PHas(by, s) THEN PGet(by, s) ELSE default_store_data)))

\* normalize_all(data): ok = it returned, d = what it returned
normalize_all(data) ==
    LET h == NormalizeHead(data)
        r == NormalizeLoop(h.stores, h.byStore)
    IN  [ok |-> r.ok, d |-> Catalog(h.stores, r.byStore, h.lastSync)]

----------------------------------------------------------------------------
(* Auth: tokens *)

SUPERADMIN_ID == "dldydtjq159"
SUPERADMIN_PW == "tkfkd4026"
JWT_TTL_SEC == 60 * 60 * 12

\* a token is its payload and whether its signature is the HS256 MAC of that
\* payload under TOKEN_SECRET ("ok") or anything else ("bad")
NoToken == [sub |-> "", role |-> "", iat |-> 0, exp |-> 0, sig |-> "none"]
_make_token(user_id, role, t) ==
    [sub |-> user_id, role |-> role, iat |-> t, exp |-> t + JWT_TTL_SEC, sig |-> "ok"]

\* a whitespace-separated word of the Authorization header: a scheme or other
\* text (s), or the text of a token (s = "jwt")
TextWord(s) == [s |-> s, tok |-> NoToken]
TokWord(t) == [s |-> "jwt", tok |-> t]
\* the header: absent (None), or the words authorization.split() yields
NoHeader == [present |-> FALSE, parts |-> <<>>]
Header(parts) == [present |-> TRUE, parts |-> parts]

\* str.lower() on the scheme words of the model
Lower(s) == IF s \in {"Bearer", "BEARER", "bearer"} THEN "bearer" ELSE s

\* a slip: a token is still taken in the second it expires
_decode_token_LateExpiry(w, t) ==
    [ok |-> w.s = "jwt" /\ w.tok.sig = "ok" /\ ~(w.tok.exp < t), payload |-> w.tok]

\* jwt.decode(token, TOKEN_SECRET, algorithms=["HS256"]) at time t: raises unless
\* the text is a token, its signature verifies and exp is still ahead
_decode_token(w, t) ==
    [ok |-> w.s = "jwt" /\ w.tok.sig = "ok" /\ ~(w.tok.exp <= t), payload |-> w.tok]

\* a slip: the scheme is compared as it came, without lower()
get_bearer_token_CaseSensitive(authorization) ==
    IF ~authorization.present \/ authorization.parts = <<>>
    THEN [some |-> FALSE, w |-> TextWord("")]
    ELSE IF Len(authorization.parts) = 2 /\ authorization.parts[1].s = "Bearer"
         THEN [some |-> TRUE, w |-> authorization.parts[2]]
         ELSE [some |-> FALSE, w |-> TextWord("")]

get_bearer_token(authorization) ==
    IF ~authorization.present \/ authorization.parts = <<>>
    THEN [some |-> FALSE, w |-> TextWord("")]
    ELSE IF Len(authorization.parts) = 2 /\ Lower(authorization.parts[1].s) = "bearer"
         THEN [some |-> TRUE, w |-> authorization.parts[2]]
         ELSE [some |-> FALSE, w |-> TextWord("")]

\* a slip: the role is checked for the superadmin endpoints alone
require_role_AdminUnchecked(required, authorization, t) ==
    LET token == get_bearer_token(authorization)
        dec == _decode_token(token.w, t)
        role == dec.payload.role
    IN  IF ~token.some THEN [status |-> 401, payload |-> NoToken]
        ELSE IF ~dec.ok THEN [status |-> 401, payload |-> NoToken]
        ELSE IF required = "superadmin" /\ role # "superadmin"
             THEN [status |-> 403, payload |-> NoToken]
        ELSE [status |-> 200, payload |-> dec.payload]

\* require_role(required)._dep: the status it raises (200: none) and the payload
require_role(required, authorization, t) ==
    LET token == get_bearer_token(authorization)
        dec == _decode_token(token.w, t)
        role == dec.payload.role
    IN  IF ~token.some THEN [status |-> 401, payload |-> NoToken]
        ELSE IF ~dec.ok THEN [status |-> 401, payload |-> NoToken]
        ELSE IF required = "admin" /\ role \notin {"admin", "superadmin"}
             THEN [status |-> 403, payload |-> NoToken]
        ELSE IF required = "superadmin" /\ role # "superadmin"
             THEN [status |-> 403, payload |-> NoToken]
        ELSE [status |-> 200, payload |-> dec.payload]

----------------------------------------------------------------------------
(* Auth: credentials *)

\* pwd_ctx.hash(pw) draws a fresh salt; pwd_ctx.verify(pw, h) recomputes with h's
Hash(pw, salt) == [pw |-> pw, salt |-> salt]
Verify(pw, h) == h.pw = pw
Salts == 1..MaxSalt

\* str.strip() on the request strings of the model
Strip(s) ==
    CASE s = " alice " -> "alice"
      [] s = " pw1 " -> "pw1"
      [] s = "  " -> ""
      [] OTHER -> s

AdminsObj(sup, admins) == [superadmin |-> sup, admins |-> admins]
\* the default the handlers pass to _read_json(ADMINS_FILE, ...)
DefaultAdmins(salt) ==
    AdminsObj([id |-> SUPERADMIN_ID, pw_hash |-> Hash(SUPERADMIN_PW, salt)], <<>>)
\* _read_json(ADMINS_FILE, default): every key of the file is a str, every value
\* a str or an int, which json.dump and json.load carry over as they are
ReadAdmins(file, salt) == IF file.kind = "json" THEN file.obj ELSE DefaultAdmins(salt)

\* a slip: an admin's password is not verified
LoginResult_AnyPassword(admins_obj, id, pw, t) ==
    LET sup == admins_obj.superadmin
        hit == {i \in 1..Len(admins_obj.admins) : id = admins_obj.admins[i].id}
    IN  IF id = sup.id /\ Verify(pw, sup.pw_hash)
        THEN [status |-> 200, role |-> "superadmin", token |-> _make_token(id, "superadmin", t)]
        ELSE IF hit # {}
        THEN [status |-> 200, role |-> "admin", token |-> _make_token(id, "admin", t)]
        ELSE [status |-> 401, role |-> "", token |-> NoToken]

\* login, lines 170-177
LoginResult(admins_obj, id, pw, t) ==
    LET sup == admins_obj.superadmin
        hit == {i \in 1..Len(admins_obj.admins) :
                   id = admins_obj.admins[i].id /\ Verify(pw, admins_obj.admins[i].pw_hash)}
    IN  IF id = sup.id /\ Verify(pw, sup.pw_hash)
        THEN [status |-> 200, role |-> "superadmin", token |-> _make_token(id, "superadmin", t)]
        ELSE IF hit # {}
        THEN [status |-> 200, role |-> "admin", token |-> _make_token(id, "admin", t)]
        ELSE [status |-> 401, role |-> "", token |-> NoToken]

\* a slip: the stored admins are not searched for the id
CreateResult_NoDuplicateCheck(admins_obj, id, pw, salt, t) ==
    LET uid == Strip(id)
        p == Strip(pw)
    IN  IF uid = "" \/ p = "" THEN [status |-> 400, obj |-> admins_obj]
        ELSE IF uid = admins_obj.superadmin.id THEN [status |-> 409, obj |-> admins_obj]
        ELSE [status |-> 200,
              obj |-> [admins_obj EXCEPT !.admins =
                         Append(@, [id |-> uid, pw_hash |-> Hash(p, salt), created_at |-> t])]]

\* create_admin after the guard, lines 189-199: the status and the object to write
CreateResult(admins_obj, id, pw, salt, t) ==
    LET uid == Strip(id)
        p == Strip(pw)
    IN  IF uid = "" \/ p = "" THEN [status |-> 400, obj |-> admins_obj]
        ELSE IF uid = admins_obj.superadmin.id THEN [status |-> 409, obj |-> admins_obj]
        ELSE IF \E i \in 1..Len(admins_obj.admins) : admins_obj.admins[i].id = uid
             THEN [status |-> 409, obj |-> admins_obj]
        ELSE [status |-> 200,
              obj |-> [admins_obj EXCEPT !.admins =
                         Append(@, [id |-> uid, pw_hash |-> Hash(p, salt), created_at |-> t])]]

\* time.strftime("%Y-%m-%d %H:%M:%S"): the text of the current second
Strftime(t) == StrV(ToString(t))

\* _ensure_files, one file each
EnsureData(file) ==
    IF file.kind = "absent" THEN FileJson(Dump(Catalog(DefaultStores, <<>>, StrV("")))) ELSE file
EnsureAdmins(file, salt) ==
    IF file.kind = "absent" THEN FileJson(DefaultAdmins(salt)) ELSE file

----------------------------------------------------------------------------
(* Data endpoints, as functions of the file read and the request *)

\* save_all after the guard: 500 when normalize_all raises, else the file written
SaveAllResult(payload, t) ==
    LET n == normalize_all(payload) IN
    IF ~n.ok THEN [status |-> 500, obj |-> n.d]
    ELSE [status |-> 200, obj |-> Doc([n.d.x EXCEPT !["lastSync"] = Strftime(t)])]

\* save_store after the guard, lines 236-242
SaveStoreResult(file, store_name, store_data, t) ==
    LET n == normalize_all(ReadJson(file, Doc(<<>>)))
        key == StrV(store_name)
        stores == n.d.x["stores"].x
        stores2 == IF SeqHas(stores, key) THEN stores ELSE Append(stores, key)
        by2 == PPut(n.d.x["byStore"].x, key, normalize_store(store_data))
    IN  IF ~n.ok THEN [status |-> 500, obj |-> n.d]
        ELSE [status |-> 200, obj |-> Catalog(stores2, by2, Strftime(t))]

\* get_all
GetAllResult(file) ==
    LET n == normalize_all(ReadJson(file, Doc(<<>>))) IN
    [status |-> IF n.ok THEN 200 ELSE 500, out |-> n.d]

\* get_store, lines 225-229
GetStoreResult(file, store_name) ==
    LET n == normalize_all(ReadJson(file, Doc(<<>>)))
        by == n.d.x["byStore"].x
        st == IF PHas(by, StrV(store_name)) THEN PGet(by, StrV(store_name)) ELSE None
    IN  [status |-> IF n.ok THEN 200 ELSE 500,
         out |-> normalize_store(IF IsDict(st) THEN st ELSE default_store_data)]

----------------------------------------------------------------------------
(* Requests handled one at a time *)

Request(op, arg, hdr, status, out) ==
    [n |-> 1 - last.n, op |-> op, arg |-> arg, hdr |-> hdr, at |-> now,
     status |-> status, out |-> out]
NoWrite == [op |-> "none", name |-> "", doc |-> None]

SeqIdle == UNCHANGED <<fs, th, acked>>

\* dsalt: the salt drawn for the default handed to _read_json
login(id, pw, dsalt) ==
    LET r == LoginResult(ReadAdmins(adminsFile, dsalt), id, pw, now) IN
    /\ last' = Request("login", [id |-> id, pw |-> pw], NoHeader, r.status,
                       [token |-> r.token, role |-> r.role])
    /\ held' = IF r.status = 200 THEN r.token ELSE held
    /\ UNCHANGED <<now, adminsFile, dataFile, wrote>>
    /\ SeqIdle

me(h) ==
    LET g == require_role("admin", h, now) IN
    /\ last' = Request("me", "", h, g.status,
                       [id |-> g.payload.sub, role |-> g.payload.role])
    /\ UNCHANGED <<now, adminsFile, dataFile, held, wrote>>
    /\ SeqIdle

\* salt: the one drawn for the new record; dsalt: the one drawn for the default
create_admin(h, id, pw, salt, dsalt) ==
    LET g == require_role("superadmin", h, now)
        r == CreateResult(ReadAdmins(adminsFile, dsalt), id, pw, salt, now)
        status == IF g.status # 200 THEN g.status ELSE r.status
    IN  /\ adminsFile' = IF status = 200 THEN FileJson(r.obj) ELSE adminsFile
        /\ last' = Request("create_admin", [id |-> id, pw |-> pw], h, status, "")
        /\ UNCHANGED <<now, dataFile, held, wrote>>
        /\ SeqIdle

list_admins(h) ==
    LET g == require_role("superadmin", h, now)
        admins == ReadAdmins(adminsFile, 1).admins
    IN  /\ last' = Request("list_admins", "", h, g.status,
                           IF g.status # 200 THEN <<>>
                           ELSE [i \in 1..Len(admins) |->
                                   [id |-> admins[i].id, created_at |-> admins[i].created_at]])
        /\ UNCHANGED <<now, adminsFile, dataFile, held, wrote>>
        /\ SeqIdle

get_all ==
    LET r == GetAllResult(dataFile) IN
    /\ last' = Request("get_all", "", NoHeader, r.status, r.out)
    /\ UNCHANGED <<now, adminsFile, dataFile, held, wrote>>
    /\ SeqIdle

save_all(h, payload) ==
    LET g == require_role("admin", h, now)
        r == SaveAllResult(payload, now)
        status == IF g.status # 200 THEN g.status ELSE r.status
    IN  /\ dataFile' = IF status = 200 THEN WriteJson(r.obj) ELSE dataFile
        /\ wrote' = IF status = 200 THEN [op |-> "save_all", name |-> "", doc |-> payload]
                    ELSE wrote
        /\ last' = Request("save_all", payload, h, status, "")
        /\ UNCHANGED <<now, adminsFile, held>>
        /\ SeqIdle

get_store(store_name) ==
    LET r == GetStoreResult(dataFile, store_name) IN
    /\ last' = Request("get_store", store_name, NoHeader, r.status, r.out)
    /\ UNCHANGED <<now, adminsFile, dataFile, held, wrote>>
    /\ SeqIdle

save_store(h, store_name, store_data) ==
    LET g == require_role("admin", h, now)
        r == SaveStoreResult(dataFile, store_name, store_data, now)
        status == IF g.status # 200 THEN g.status ELSE r.status
    IN  /\ dataFile' = IF status = 200 THEN WriteJson(r.obj) ELSE dataFile
        /\ wrote' = IF status = 200
                    THEN [op |-> "save_store", name |-> store_name, doc |-> store_data]
                    ELSE wrote
        /\ last' = Request("save_store", [name |-> store_name, doc |-> store_data],
                           h, status, "")
        /\ UNCHANGED <<now, adminsFile, held>>
        /\ SeqIdle

\* the process starts again: module import runs _ensure_files()
Startup ==
    \E salt \in Salts :
      /\ dataFile' = EnsureData(dataFile)
      /\ adminsFile' = EnsureAdmins(adminsFile, salt)
      /\ last' = Request("startup", "", NoHeader, 0, "")
      /\ UNCHANGED <<now, held, wrote>>
      /\ SeqIdle

\* the clock moves on, to a later one of the instants observed: the first
\* seconds, and the seconds around the expiry of a token minted at the start
Instants == (0..Horizon) \cup ((JWT_TTL_SEC - 1)..(JWT_TTL_SEC + Horizon))
Tick ==
    /\ now' \in Instants
    /\ now' > now
    /\ UNCHANGED <<adminsFile, dataFile, held, last, wrote>>
    /\ SeqIdle

\* the client comes by a token login did not mint: one signed without the
\* secret, or one signed with it by another holder of the secret
ForeignTokens(t) ==
    {[sub |-> "mallory", role |-> "superadmin", iat |-> t, exp |-> t + JWT_TTL_SEC, sig |-> "bad"],
     [sub |-> "svc", role |-> "guest", iat |-> t, exp |-> t + JWT_TTL_SEC, sig |-> "ok"],
     [sub |-> "svc", role |-> "none", iat |-> t, exp |-> t + JWT_TTL_SEC, sig |-> "ok"]}
Foreign(toks) ==
    /\ held' \in toks
    /\ held' # held
    /\ UNCHANGED <<now, adminsFile, dataFile, last, wrote>>
    /\ SeqIdle

\* the Authorization headers a client holding token t sends
Bearer(t) == Header(<<TextWord("Bearer"), TokWord(t)>>)
HeaderForms(t) ==
    {NoHeader, Header(<<>>), Bearer(t),
     Header(<<TextWord("bearer"), TokWord(t)>>),
     Header(<<TextWord("BEARER"), TokWord(t)>>),
     Header(<<TextWord("Basic"), TokWord(t)>>),
     Header(<<TokWord(t)>>),
     Header(<<TextWord("Bearer"), TokWord(t), TokWord(t)>>),
     Header(<<TextWord("Bearer"), TextWord("Bearer")>>)}
PlainForms(t) == {NoHeader, Bearer(t)}
LowerForms(t) == {NoHeader, Bearer(t), Header(<<TextWord("bearer"), TokWord(t)>>)}

NoRequest == [n |-> 0, op |-> "none", arg |-> "", hdr |-> NoHeader, at |-> 0, status |-> 0, out |-> ""]

\* the state after the first start of the process, with no request handled yet
Booted ==
    /\ dataFile = EnsureData(Absent)
    /\ adminsFile = EnsureAdmins(Absent, 1)
    /\ last = NoRequest
    /\ wrote = NoWrite
    /\ fs = <<>>
    /\ th = <<>>
    /\ acked = {}

----------------------------------------------------------------------------
(* Spec: tokens and the guard over time *)

TokenIds == {SUPERADMIN_ID, "alice"}
TokenPws == {SUPERADMIN_PW, "pw1"}

Init ==
    /\ Booted
    /\ now = 0
    /\ held = NoToken

Next ==
    \/ \E id \in TokenIds, pw \in TokenPws : login(id, pw, 1)
    \/ \E h \in HeaderForms(held) : me(h)
    \/ \E h \in PlainForms(held) : create_admin(h, "alice", "pw1", 1, 1)
    \/ \E h \in LowerForms(held) : list_admins(h)
    \/ Tick
    \/ Foreign(ForeignTokens(now))

Spec == Init /\ [][Next]_vars

----------------------------------------------------------------------------
(* What the claims speak of, stated on the requests and not by the guard *)

GuardedOps == {"me", "list_admins", "create_admin", "save_all", "save_store"}
ReadOps == {"get_all", "get_store", "list_admins", "me", "login"}
MinRole(op) == IF op \in {"me", "save_all", "save_store"} THEN "admin" ELSE "superadmin"
RoleRank(r) == CASE r = "admin" -> 1 [] r = "superadmin" -> 2 [] OTHER -> 0

\* the header is 'Bearer <token>', the prefix in any case
BearerForm(h) ==
    /\ h.present
    /\ Len(h.parts) = 2
    /\ h.parts[1].s \in {"Bearer", "bearer", "BEARER"}
\* ... and the token verifies at time t
Verified(h, t) ==
    /\ BearerForm(h)
    /\ h.parts[2].s = "jwt"
    /\ h.parts[2].tok.sig = "ok"
    /\ t < h.parts[2].tok.exp
\* ... and its role is min_role or higher
Satisfies(h, t, min_role) ==
    /\ Verified(h, t)
    /\ RoleRank(h.parts[2].tok.role) >= RoleRank(min_role)

\* C2: a guarded request ends 401 when the header is absent, is not 'Bearer
\* <token>' or the token does not verify; 403 when the token verifies and its
\* role is below the endpoint's minimum role; and otherwise passes the guard,
\* the handler receiving the token's claim as it is (me returns its id and role).
C2_GuardOutcomes ==
    last.op \in GuardedOps =>
        /\ ~Verified(last.hdr, last.at) => last.status = 401
        /\ (Verified(last.hdr, last.at) /\ ~Satisfies(last.hdr, last.at, MinRole(last.op)))
              => last.status = 403
        /\ Satisfies(last.hdr, last.at, MinRole(last.op)) =>
              /\ last.status \notin {401, 403}
              /\ last.op = "me" =>
                    last.out = [id |-> last.hdr.parts[2].tok.sub,
                                role |-> last.hdr.parts[2].tok.role]

\* an admin's token, in a lower-case bearer header, was refused by a
\* superadmin-only endpoint
C2_Witness ==
    /\ last.op = "list_admins"
    /\ last.status = 403
    /\ BearerForm(last.hdr)
    /\ last.hdr.parts[1].s = "bearer"
    /\ last.hdr.parts[2].tok.role = "admin"

\* a token as login mints it
Minted(tok) ==
    /\ tok.sig = "ok"
    /\ tok.role \in {"admin", "superadmin"}
    /\ tok.exp = tok.iat + 43200

C3_State ==
    /\ (last.op = "login" /\ last.status = 200) =>
          /\ last.out.token.exp = last.at + 43200
          /\ Minted(last.out.token)
    /\ (last.op = "me" /\ BearerForm(last.hdr) /\ last.hdr.parts[2].s = "jwt"
          /\ Minted(last.hdr.parts[2].tok)) =>
          /\ last.at < last.hdr.parts[2].tok.exp => last.status = 200
          /\ last.at >= last.hdr.parts[2].tok.exp => last.status = 401
C3_Step ==
    /\ held' = held \/ last'.op = "login" \/ held'.sig # "ok" \/ held'.role \notin {"admin", "superadmin"}
    /\ (held' = held /\ Minted(held) /\ ~_decode_token(TokWord(held), now).ok)
          => ~_decode_token(TokWord(held'), now').ok

\* C3: a token minted by login at t expires at t + 12h; the guard accepts it at
\* every time before that and rejects it (401) at and after it; the token a
\* client holds is replaced only by a new login, never changed, and once it has
\* been rejected for expiry it is rejected at every later time.
C3_TokenExpires == []C3_State /\ [][C3_Step]_vars

\* a superadmin token was rejected at the very second it expires
C3_Witness ==
    /\ last.op = "me"
    /\ last.status = 401
    /\ last.hdr = Bearer(held)
    /\ Minted(held)
    /\ last.at = held.exp

----------------------------------------------------------------------------
(* SpecCred: the credential store, the clock standing still *)

LoginIds == {SUPERADMIN_ID, "alice", " alice ", "bob"}
LoginPws == {SUPERADMIN_PW, "pw1", " pw1 "}
CreateIds == {SUPERADMIN_ID, "alice", " alice ", "bob", "  "}
CreatePws == {"pw1", " pw1 ", "  "}

CredNext ==
    \/ \E id \in LoginIds, pw \in LoginPws : login(id, pw, 1)
    \/ \E h \in PlainForms(held), id \in CreateIds, pw \in CreatePws, salt \in Salts :
          create_admin(h, id, pw, salt, 1)
    \/ \E h \in PlainForms(held) : list_admins(h)
    \/ Startup

SpecCred == Init /\ [][CredNext]_vars

\* the credential records the admins file holds
StoredSuper == adminsFile.obj.superadmin
StoredAdmins == adminsFile.obj.admins
StoredIds == {StoredSuper.id} \cup {StoredAdmins[i].id : i \in 1..Len(StoredAdmins)}
MatchesSuper(id, pw) == id = StoredSuper.id /\ StoredSuper.pw_hash.pw = pw
MatchesAdmin(id, pw) ==
    \E i \in 1..Len(StoredAdmins) : StoredAdmins[i].id = id /\ StoredAdmins[i].pw_hash.pw = pw

\* C4: login returns a token exactly when id and password match a stored
\* record: role superadmin and a superadmin token for that id when they match
\* the superadmin record, role admin and an admin token for that id when they
\* match an admin record; every other login gets the one 401 response; no
\* superadmin token is issued for an id other than the stored superadmin id.
C4_Login ==
    last.op = "login" =>
      LET id == last.arg.id
          pw == last.arg.pw
      IN  /\ last.status = 200 <=> (MatchesSuper(id, pw) \/ MatchesAdmin(id, pw))
          /\ MatchesSuper(id, pw) =>
                last.out = [token |-> [sub |-> id, role |-> "superadmin", iat |-> last.at,
                                       exp |-> last.at + 43200, sig |-> "ok"],
                            role |-> "superadmin"]
          /\ MatchesAdmin(id, pw) =>
                last.out = [token |-> [sub |-> id, role |-> "admin", iat |-> last.at,
                                       exp |-> last.at + 43200, sig |-> "ok"],
                            role |-> "admin"]
          /\ last.status # 200 =>
                /\ last.status = 401
                /\ last.out = [token |-> NoToken, role |-> ""]
          /\ last.out.token.role = "superadmin" => id = StoredSuper.id

\* an admin created by the superadmin has logged in
C4_Witness ==
    /\ last.op = "login"
    /\ last.status = 200
    /\ last.out.role = "admin"
    /\ last.arg.id = "bob"

\* a create_admin request is handled in this step
CreateStep == last'.n # last.n /\ last'.op = "create_admin"

Blank(pw) == pw \in {"", "  "}
Stores(id, pw, t, salt) ==
    adminsFile'.obj.admins =
        Append(StoredAdmins, [id |-> id, pw_hash |-> Hash(pw, salt), created_at |-> t])
C5_FirstTime ==
    (last'.arg.id \in {"alice", "bob"} /\ last'.arg.id \notin StoredIds /\ last'.arg.pw = "pw1") =>
        /\ last'.status = 200
        /\ \E salt \in Salts : Stores(last'.arg.id, "pw1", last'.at, salt)
C5_Step ==
    (CreateStep /\ Satisfies(last'.hdr, last'.at, "superadmin")) =>
        /\ last'.arg.id \in StoredIds =>
              /\ last'.status = IF Blank(last'.arg.pw) THEN 400 ELSE 409
              /\ adminsFile' = adminsFile
        /\ C5_FirstTime
C5_StepAsClaimed ==
    (CreateStep /\ Satisfies(last'.hdr, last'.at, "superadmin")) =>
        /\ last'.arg.id \in StoredIds =>
              /\ last'.status = 409
              /\ adminsFile' = adminsFile
        /\ C5_FirstTime
C5_Distinct ==
    /\ \A i \in 1..Len(StoredAdmins) : StoredAdmins[i].id # StoredSuper.id
    /\ \A i, j \in 1..Len(StoredAdmins) : StoredAdmins[i].id = StoredAdmins[j].id => i = j

\* C5, amended: with a valid superadmin token, create_admin for the superadmin
\* id or for a stored admin id is refused and leaves the credentials file as it
\* was: with 409 when the password is not blank, with 400 when it is blank; for
\* a new id it stores the record, so that the same id succeeds once and fails
\* after; the stored ids stay pairwise distinct.
C5_CreateConflict == [][C5_Step]_vars /\ []C5_Distinct

\* C5 as claimed: the refusal is 409 whatever the password
C5_AsClaimed == [][C5_StepAsClaimed]_vars /\ []C5_Distinct

\* alice is stored, and creating alice again has been refused
C5_Witness ==
    /\ last.op = "create_admin"
    /\ last.status = 409
    /\ last.arg.id = "alice"
    /\ Len(StoredAdmins) = 2
    /\ StoredAdmins[2].id = "alice"

----------------------------------------------------------------------------
(* SpecGate: every endpoint, on both files *)

GatePayloads ==
    {Doc([stores |-> NameList(<<StrV("A")>>)]),
     Doc([stores |-> NameList(<<OpaqueList("u")>>)])}
GateDocs == {Doc([memo |-> StrV("m1")])}
GateNames == {"A"}

GateNext ==
    \/ \E id \in TokenIds, pw \in TokenPws : login(id, pw, 1)
    \/ \E h \in PlainForms(held) : me(h)
    \/ \E h \in PlainForms(held), pw \in {"pw1", "  "} : create_admin(h, "alice", pw, 1, 1)
    \/ \E h \in PlainForms(held) : list_admins(h)
    \/ get_all
    \/ \E h \in PlainForms(held), payload \in GatePayloads : save_all(h, payload)
    \/ \E name \in GateNames : get_store(name)
    \/ \E h \in PlainForms(held), name \in GateNames, doc \in GateDocs : save_store(h, name, doc)
    \/ Startup
    \/ Foreign({[sub |-> "svc", role |-> "guest", iat |-> now, exp |-> now + JWT_TTL_SEC,
                 sig |-> "ok"]})

\* the process has been up for a while: the client may hold the token of a
\* superadmin login made at an earlier instant
GateInit ==
    /\ Booted
    /\ now \in Instants
    /\ held \in {NoToken} \cup
                {_make_token(SUPERADMIN_ID, "superadmin", t) : t \in {i \in Instants : i <= now}}

SpecGate == GateInit /\ [][GateNext]_vars

C1_Step ==
    /\ dataFile' # dataFile =>
          /\ last'.op \in {"save_all", "save_store"}
          /\ last'.at = now
          /\ Satisfies(last'.hdr, now, "admin")
    /\ adminsFile' # adminsFile =>
          /\ last'.op = "create_admin"
          /\ last'.at = now
          /\ Satisfies(last'.hdr, now, "superadmin")
    /\ (last'.n # last.n /\ (last'.status \in {400, 401, 403, 409} \/ last'.op \in ReadOps)) =>
          /\ dataFile' = dataFile
          /\ adminsFile' = adminsFile

\* C1: the data file changes only in a save_all or save_store request that
\* carries a token valid at that time with role admin or superadmin, the
\* credentials file only in a create_admin request that carries a valid
\* superadmin token; a request that ends 400, 401, 403 or 409, and every read
\* request, leaves both files as they were.
C1_LoginGated == [][C1_Step]_vars

\* an admin has written a store, and the data file holds it
C1_Witness ==
    /\ last.op = "save_store"
    /\ last.status = 200
    /\ last.hdr.parts[2].tok.role = "admin"
    /\ dataFile # EnsureData(Absent)

----------------------------------------------------------------------------
(* SpecData: the document store, written by a logged-in superadmin *)

PathNames == {"A", "1"}
DataStores ==
    {None, NameList(<<>>), NameList(<<StrV("A")>>), NameList(<<StrV("A"), StrV("A")>>),
     NameList(<<IntV("1")>>), NameList(<<StrV("B"), StrV("A")>>),
     NameList(<<OpaqueList("u")>>)}
DataByStore ==
    {None, Pairs(<< <<StrV("A"), Doc([memo |-> StrV("m0")])>> >>),
     Pairs(<< <<StrV("A"), None>> >>)}
DataPayloads == {Doc([stores |-> st, byStore |-> by]) : st \in DataStores, by \in DataByStore}
DataDocs ==
    {Doc([memo |-> StrV("m1")]),
     Doc([memo |-> IntV("5"), inventory |-> OpaqueDict("inv1"), note |-> StrV("n")])}

DataInit ==
    /\ Booted
    /\ now = 0
    /\ held = _make_token(SUPERADMIN_ID, "superadmin", 0)

DataNext ==
    \/ get_all
    \/ \E h \in PlainForms(held), payload \in DataPayloads : save_all(h, payload)
    \/ \E name \in PathNames : get_store(name)
    \/ \E h \in PlainForms(held), name \in PathNames, doc \in DataDocs : save_store(h, name, doc)

SpecData == DataInit /\ [][DataNext]_vars

\* C6: get_store of a name, with the last write to the data file a save_store
\* of a document under that name, returns normalize_store of that document.
C6_RoundTrip ==
    (last.op = "get_store" /\ wrote.op = "save_store" /\ wrote.name = last.arg) =>
        /\ last.status = 200
        /\ last.out = normalize_store(wrote.doc)

\* C7: every name in the stores list of the catalog get_all returns occurs in
\* the list once.
C7_UniqueNames ==
    (last.op = "get_all" /\ last.status = 200) =>
        LET stores == last.out.x["stores"].x IN
        \A i \in 1..Len(stores) : Count(stores, stores[i]) = 1

----------------------------------------------------------------------------
(* SpecNorm: reading whatever the data file holds *)

NormStores == DataStores \cup {StrV("x")}
NormByStore ==
    DataByStore \cup
    {StrV("x"),
     Pairs(<< <<StrV("A"), Doc([memo |-> StrV("m0")])>>, <<StrV("A"), Doc([ledger |-> None])>> >>)}
NormLastSync == {None, StrV("t"), IntV("5")}
FileStates ==
    {Absent, Garbage, FileJson(None), FileJson(StrV("x")), FileJson(NameList(<<StrV("A")>>)),
     FileJson(Doc(<<>>))}
    \cup {FileJson(Doc([stores |-> st, byStore |-> by, lastSync |-> ls])) :
            st \in NormStores, by \in NormByStore, ls \in NormLastSync}

NormInit ==
    /\ now = 0
    /\ held = NoToken
    /\ dataFile \in FileStates
    /\ adminsFile = EnsureAdmins(Absent, 1)
    /\ last = NoRequest
    /\ wrote = NoWrite
    /\ fs = <<>>
    /\ th = <<>>
    /\ acked = {}

NormNext ==
    \/ get_all
    \/ \E name \in PathNames : get_store(name)

SpecNorm == NormInit /\ [][NormNext]_vars

WellFormedStore(d) ==
    /\ IsDict(d)
    /\ {"inventory", "recipes", "memo", "ledger"} \subseteq DOMAIN d.x
    /\ d.x["inventory"].t = "dict"
    /\ d.x["recipes"].t = "dict"
    /\ d.x["memo"].t = "str"
    /\ d.x["ledger"].t = "list"

\* C8: whatever the data file holds, get_all returns, and returns a catalog
\* whose stores list is not empty and each of whose names has an entry in
\* byStore with inventory (dict), recipes (dict), memo (str) and ledger (list).
C8_ReadAllTotal ==
    last.op = "get_all" =>
        /\ last.status = 200
        /\ LET stores == last.out.x["stores"].x
               by == last.out.x["byStore"].x
           IN  /\ stores # <<>>
               /\ \A i \in 1..Len(stores) :
                     PHas(by, stores[i]) /\ WellFormedStore(PGet(by, stores[i]))

----------------------------------------------------------------------------
(* SpecConc: requests on worker threads, a step at a time, over one directory *)
(* (FastAPI runs the handlers, plain def functions, on a pool of threads)     *)

Threads == {1, 2}
Inodes == 1..5
Paths == {"data", "data.tmp", "admins", "admins.tmp"}

\* an inode: free, or a file that is empty (just truncated), holds the first
\* part of val written by thread w, holds all of val, or holds a mix of writes
FreeInode == [st |-> "free", val |-> None, w |-> 0]
EmptyInode == [st |-> "empty", val |-> None, w |-> 0]
IdleThread == [pc |-> "idle", op |-> "none", path |-> "", fd |-> 0, obj |-> None,
               rec |-> None, status |-> 0]

\* what a reader of path finds
Visible(f, path) ==
    IF f.dir[path] = 0 THEN Absent
    ELSE IF f.ino[f.dir[path]].st = "complete" THEN FileJson(f.ino[f.dir[path]].val)
    ELSE Garbage

\* an inode no path names and no thread holds open is gone
Collect(f, t) ==
    [f EXCEPT !.ino = [i \in Inodes |->
        IF (\A q \in Paths : f.dir[q] # i) /\ (\A w \in Threads : t[w].fd # i)
        THEN FreeInode ELSE f.ino[i]]]

ConcIdle == UNCHANGED <<now, held, last, wrote>>
Sync == /\ dataFile' = Visible(fs', "data")
        /\ adminsFile' = Visible(fs', "admins")

\* a handler up to its call of _write_json: the guard, the read, the object
BeginWrite(w, op, path, status, obj, rec) ==
    /\ th[w].pc = "idle"
    /\ th' = [th EXCEPT ![w] =
                IF status = 200
                THEN [pc |-> "open", op |-> op, path |-> path, fd |-> 0, obj |-> obj,
                      rec |-> rec, status |-> 0]
                ELSE [IdleThread EXCEPT !.op = op, !.status = status]]
    /\ UNCHANGED <<fs, dataFile, adminsFile, acked>>
    /\ ConcIdle

BeginSaveStore(w, h, store_name, store_data) ==
    LET g == require_role("admin", h, now)
        r == SaveStoreResult(dataFile, store_name, store_data, now)
    IN  BeginWrite(w, "save_store", "data", IF g.status # 200 THEN g.status ELSE r.status,
                   Dump(r.obj), None)

BeginSaveAll(w, h, payload) ==
    LET g == require_role("admin", h, now)
        r == SaveAllResult(payload, now)
    IN  BeginWrite(w, "save_all", "data", IF g.status # 200 THEN g.status ELSE r.status,
                   Dump(r.obj), None)

BeginCreateAdmin(w, h, id, pw, salt, dsalt) ==
    LET g == require_role("superadmin", h, now)
        r == CreateResult(ReadAdmins(adminsFile, dsalt), id, pw, salt, now)
    IN  BeginWrite(w, "create_admin", "admins",
                   IF g.status # 200 THEN g.status ELSE r.status,
                   r.obj, r.obj.admins[Len(r.obj.admins)])

\* _write_json line 40, open(tmp, "w"): the file at tmp is truncated, or made
OpenTmp(w) ==
    LET tmp == th[w].path \o ".tmp"
        i == IF fs.dir[tmp] # 0 THEN fs.dir[tmp]
             ELSE CHOOSE k \in Inodes : fs.ino[k].st = "free" /\
                                        \A m \in Inodes : fs.ino[m].st = "free" => k <= m
    IN  /\ th[w].pc = "open"
        /\ fs' = [dir |-> [fs.dir EXCEPT ![tmp] = i], ino |-> [fs.ino EXCEPT ![i] = EmptyInode]]
        /\ th' = [th EXCEPT ![w].pc = "dump", ![w].fd = i]
        /\ Sync
        /\ UNCHANGED acked
        /\ ConcIdle

\* line 41, json.dump: the first part of the text reaches the file
WriteSome(w) ==
    LET i == th[w].fd IN
    /\ th[w].pc = "dump"
    /\ fs' = [fs EXCEPT !.ino[i] =
                IF @.st = "empty" THEN [st |-> "partial", val |-> th[w].obj, w |-> w]
                ELSE [st |-> "garbled", val |-> None, w |-> 0]]
    /\ th' = [th EXCEPT ![w].pc = "close"]
    /\ Sync
    /\ UNCHANGED acked
    /\ ConcIdle

\* line 41 and the end of the with block: the rest is written, the file closed
WriteRest(w) ==
    LET i == th[w].fd IN
    /\ th[w].pc = "close"
    /\ th' = [th EXCEPT ![w].pc = "replace", ![w].fd = 0]
    /\ fs' = Collect([fs EXCEPT !.ino[i] =
                        IF @.st = "partial" /\ @.w = w
                        THEN [st |-> "complete", val |-> th[w].obj, w |-> w]
                        ELSE [st |-> "garbled", val |-> None, w |-> 0]], th')
    /\ Sync
    /\ UNCHANGED acked
    /\ ConcIdle

\* line 42, os.replace(tmp, path), and the handler's return: FileNotFoundError
\* (the request ends 500) when another thread has moved tmp away
Replace(w) ==
    LET tmp == th[w].path \o ".tmp"
        found == fs.dir[tmp] # 0
    IN  /\ th[w].pc = "replace"
        /\ th' = [th EXCEPT ![w] = [IdleThread EXCEPT !.op = th[w].op,
                                       !.status = IF found THEN 200 ELSE 500]]
        /\ fs' = IF found
                 THEN Collect([fs EXCEPT !.dir[th[w].path] = fs.dir[tmp], !.dir[tmp] = 0], th')
                 ELSE fs
        /\ acked' = IF found /\ th[w].op = "create_admin" THEN acked \cup {th[w].rec} ELSE acked
        /\ Sync
        /\ ConcIdle

\* the process dies with requests under way and starts again (_ensure_files
\* finds both files); what the threads had open is closed, the files stay
Crash ==
    /\ \E w \in Threads : th[w].pc # "idle"
    /\ th' = [w \in Threads |-> IdleThread]
    /\ fs' = Collect(fs, th')
    /\ Sync
    /\ UNCHANGED acked
    /\ ConcIdle

ConcNames == {"A"}
ConcDoc == Doc([memo |-> StrV("m1")])
ConcPayload == Doc([stores |-> NameList(<<StrV("A")>>)])
ConcIds == {"alice", "bob"}

ConcInit ==
    /\ now = 0
    /\ held = _make_token(SUPERADMIN_ID, "superadmin", 0)
    /\ last = NoRequest
    /\ wrote = NoWrite
    /\ dataFile = EnsureData(Absent)
    /\ adminsFile = EnsureAdmins(Absent, 1)
    /\ fs = [dir |-> [q \in Paths |-> CASE q = "data" -> 1 [] q = "admins" -> 2 [] OTHER -> 0],
             ino |-> [i \in Inodes |->
                        CASE i = 1 -> [st |-> "complete", val |-> EnsureData(Absent).obj, w |-> 0]
                          [] i = 2 -> [st |-> "complete", val |-> EnsureAdmins(Absent, 1).obj, w |-> 0]
                          [] OTHER -> FreeInode]]
    /\ th = [w \in Threads |-> IdleThread]
    /\ acked = {}

ConcSteps ==
    \/ \E w \in Threads : OpenTmp(w)
    \/ \E w \in Threads : WriteSome(w)
    \/ \E w \in Threads : WriteRest(w)
    \/ \E w \in Threads : Replace(w)
    \/ Crash

\* SpecConc: writers of the data file
ConcNext ==
    \/ \E w \in Threads, name \in ConcNames : BeginSaveStore(w, Bearer(held), name, ConcDoc)
    \/ \E w \in Threads : BeginSaveAll(w, Bearer(held), ConcPayload)
    \/ ConcSteps

SpecConc == ConcInit /\ [][ConcNext]_vars

\* SpecConcCred: writers of the credentials file
ConcCredNext ==
    \/ \E w \in Threads, id \in ConcIds :
          BeginCreateAdmin(w, Bearer(held), id, "pw1", 1, MaxSalt)
    \/ ConcSteps

SpecConcCred == ConcInit /\ [][ConcCredNext]_vars

\* C9: the data file a reader sees always holds a whole document, the one
\* before a write or the one of a write; and no write that was started, and
\* not cut short by a crash, fails to swap its temporary file into place.
C9_AtomicPersistence ==
    /\ dataFile.kind = "json"
    /\ \A w \in Threads : th[w].op \in {"save_all", "save_store"} => th[w].status # 500

\* C10: the superadmin record, and every admin record whose create_admin
\* returned ok, is in the credentials file, with the same id and password hash.
C10_RecordsKept ==
    /\ adminsFile.kind = "json"
    /\ StoredSuper = EnsureAdmins(Absent, 1).obj.superadmin
    /\ \A r \in acked : \E i \in 1..Len(StoredAdmins) : StoredAdmins[i] = r

====
